---- MODULE Spec2Model ----
(***************************************************************************)
(* Genetic-algorithm operators of Petter-s/GeneticAlgorithmFunctions:      *)
(*   BitflipMutation.c      (Mutate),                                      *)
(*   NpointCrossover.c      (Crossover),                                   *)
(*   TournamentSelection.c  (Select),                                      *)
(* and the bounded random integer primitive randr the last two share.      *)
(*                                                                         *)
(* Each MEX gateway is a program of its own; each gets a specification     *)
(* (SpecMutate, SpecCrossover, SpecSelect, SpecRandr) over the variables   *)
(* it uses, the other programs' variables staying at their idle values.    *)
(* Matrices are MATLAB column-major arrays, modelled as functions from the *)
(* linear index 0..rows*cols-1, element (row, col) at row + col*rows, as   *)
(* the code indexes them.  rand() is an input drawn from 0..RAND_MAX.      *)
(***************************************************************************)
EXTENDS Integers, Sequences, FiniteSets

VARIABLES
    pc,                   \* position of the running program
    m, n,                 \* mxGetM / mxGetN of the population argument
    gene,                 \* loop counter of Mutate and of Crossover
    Population,           \* input population of Mutate and of Select
    \* ---- BitflipMutation.c
    Pm, ElitismNo, MutatedPopulation, individual,
    Triggered,            \* history: the (individual, gene) pairs whose draw gave RandNr < Pm
    \* ---- NpointCrossover.c
    Parentpool, N, my, Children, errorId, CrossOverPoints, GeneratedChild,
    P1, P2, i, e,
    ChildrenCreated,      \* plhs[0] has been created
    Stored,               \* history: the <<row, linear index>> of every store into Children
    oobRead,              \* history: CrossOverPoints was read at an index >= N
    EventParents,         \* history: <<P1, P2>> of each crossover event, in order
    \* ---- TournamentSelection.c
    k, Fitness, NoSurvivors, Eliterows, Survivors, SurvivorFitness, Tournament,
    Contender, ContenderList, ContenderFitnessList, ContenderIndex,
    TournamentLog,        \* history: the contender list of each finished tournament
    \* ---- randr on its own
    rmin, rmax, rdrawn, rimage

sharedVars == <<pc, m, n, gene, Population>>
mutVars    == <<Pm, ElitismNo, MutatedPopulation, individual, Triggered>>
crossVars  == <<Parentpool, N, my, Children, errorId, CrossOverPoints, GeneratedChild,
                P1, P2, i, e, ChildrenCreated, Stored, oobRead, EventParents>>
selVars    == <<k, Fitness, NoSurvivors, Eliterows, Survivors, SurvivorFitness,
                Tournament, Contender, ContenderList, ContenderFitnessList,
                ContenderIndex, TournamentLog>>
randrVars  == <<rmin, rmax, rdrawn, rimage>>
vars       == <<sharedVars, mutVars, crossVars, selVars, randrVars>>

(***************************************************************************)
(* Bounds of the model.                                                    *)
(***************************************************************************)
\* rand() returns 0..RAND_MAX.  RAND_MAX is implementation-defined (32767 with
\* the compilers the sources list); the model scales it down.  Whether randr
\* reaches all of its range depends on RAND_MAX and the range size alike:
\* with d == RAND_MAX \div size + 1 the largest result is RAND_MAX \div d.
RAND_MAX == 3

\* Mutate: population of 1..MaxM rows and 1..MaxN columns.
MaxM == 2
MaxN == 2

\* Crossover: parent pool of 2..MaxPoolM rows and 1..MaxPoolN columns, up to MaxMy children.
MaxPoolM == 2
MaxPoolN == 3
MaxMy == 2

\* Select: population of 1..MaxSelM rows and 1..MaxSelN columns, up to MaxSurvivors survivors.
MaxSelM == 3
MaxSelN == 2
MaxSurvivors == 2

\* randr on its own: min in 0..MaxMin, max - min in 0..RAND_MAX.
MaxMin == 2

(***************************************************************************)
(* Helpers shared by the three programs.                                   *)
(***************************************************************************)
\* mxCreateLogicalMatrix(rows, cols): a zero-filled column-major logical matrix.
mxCreateLogicalMatrix(rows, cols) == [idx \in 0..(rows * cols - 1) |-> FALSE]

\* All rows x cols logical matrices (what mxGetLogicals may hand the program).
LogicalMatrices(rows, cols) == [0..(rows * cols - 1) -> BOOLEAN]

\* randr(min, max) on the rand() outcome r: unsigned integer arithmetic, '/' truncates.
randr_nomin(min, max, r) == r % (max + 1)

randr(min, max, r) == min + r \div (RAND_MAX \div (max - min + 1) + 1)

\* Values of the variables of a program that is not the one running.
IdleMutate ==
    /\ Pm = <<0, 1>> /\ ElitismNo = 0 /\ MutatedPopulation = <<>>
    /\ individual = 0 /\ Triggered = {}

IdleCrossover ==
    /\ Parentpool = <<>> /\ N = 0 /\ my = 0 /\ Children = <<>> /\ errorId = ""
    /\ CrossOverPoints = <<>> /\ GeneratedChild = 0 /\ P1 = 0 /\ P2 = 0
    /\ i = 0 /\ e = 0 /\ ChildrenCreated = FALSE
    /\ Stored = {} /\ oobRead = FALSE /\ EventParents = <<>>

IdleSelect ==
    /\ k = 0 /\ Fitness = <<>> /\ NoSurvivors = 0 /\ Eliterows = 0
    /\ Survivors = <<>> /\ SurvivorFitness = <<>> /\ Tournament = 0
    /\ Contender = 0 /\ ContenderList = <<>> /\ ContenderFitnessList = <<>>
    /\ ContenderIndex = 0 /\ TournamentLog = <<>>

IdleRandr ==
    /\ rmin = 0 /\ rmax = 0 /\ rdrawn = {} /\ rimage = {}

(***************************************************************************)
(* BitflipMutation.c                                                       *)
(***************************************************************************)
\* Mutation probabilities, as fractions <<numerator, denominator>>: 0, 1/2 and 1.
PmValues == {<<0, 1>>, <<1, 2>>, <<1, 1>>}

\* RandNr = (double)rand() / RAND_MAX;  RandNr < *Pm.  With Pm = a/b the test is
\* r/RAND_MAX < a/b, i.e. r*b < a*RAND_MAX (the quotients are far enough apart
\* for the rounding of the double division not to change the comparison).
MutationTriggered(r, p) == r * p[2] < p[1] * RAND_MAX

\* if (x == true) x = false; else x = true;
Flip(b) == IF b = TRUE THEN FALSE ELSE TRUE

\* The inner loop starts after the elites: individual = ElitismNo.
FirstIndividual_zero(elites) == 0

FirstIndividual(elites) == elites

InitMutate ==
    /\ pc = "MutCreate"
    /\ m \in 1..MaxM
    /\ n \in 1..MaxN
    /\ Population \in LogicalMatrices(m, n)
    /\ Pm \in PmValues
    /\ ElitismNo \in 0..m
    /\ MutatedPopulation = <<>>
    /\ gene = 0
    /\ individual = 0
    /\ Triggered = {}
    /\ IdleCrossover /\ IdleSelect /\ IdleRandr

\* plhs[0] = mxCreateLogicalMatrix(m, n); memcpy(MutatedPopulation, Population, m*n)
MutCreate ==
    /\ pc = "MutCreate"
    /\ MutatedPopulation' =
          [idx \in DOMAIN mxCreateLogicalMatrix(m, n) |-> Population[idx]]
    /\ gene' = 0
    /\ pc' = "MutGeneLoop"
    /\ UNCHANGED <<m, n, Population, Pm, ElitismNo, individual, Triggered>>
    /\ UNCHANGED <<crossVars, selVars, randrVars>>

\* for (gene = 0; gene < n; gene++): the loop test, and the inner loop's initialisation
MutGeneLoop ==
    /\ pc = "MutGeneLoop"
    /\ IF gene < n
          THEN /\ individual' = FirstIndividual(ElitismNo)
               /\ pc' = "MutIndivLoop"
          ELSE /\ individual' = individual
               /\ pc' = "MutDone"
    /\ UNCHANGED <<m, n, gene, Population, Pm, ElitismNo, MutatedPopulation, Triggered>>
    /\ UNCHANGED <<crossVars, selVars, randrVars>>

\* One pass of the inner loop's body with rand() = r, then individual++.
MutDraw(r) ==
    /\ pc = "MutIndivLoop"
    /\ individual < m
    /\ IF MutationTriggered(r, Pm)
          THEN /\ MutatedPopulation' =
                     [MutatedPopulation EXCEPT ![individual + gene * m] = Flip(@)]
               /\ Triggered' = Triggered \cup {<<individual, gene>>}
          ELSE /\ UNCHANGED <<MutatedPopulation, Triggered>>
    /\ individual' = individual + 1
    /\ UNCHANGED <<pc, m, n, gene, Population, Pm, ElitismNo>>
    /\ UNCHANGED <<crossVars, selVars, randrVars>>

\* individual < m fails: the inner loop ends, gene++.
MutIndivExit ==
    /\ pc = "MutIndivLoop"
    /\ ~(individual < m)
    /\ gene' = gene + 1
    /\ pc' = "MutGeneLoop"
    /\ UNCHANGED <<m, n, Population, Pm, ElitismNo, MutatedPopulation, individual, Triggered>>
    /\ UNCHANGED <<crossVars, selVars, randrVars>>

NextMutate ==
    \/ MutCreate
    \/ MutGeneLoop
    \/ \E r \in 0..RAND_MAX : MutDraw(r)
    \/ MutIndivExit

SpecMutate == InitMutate /\ [][NextMutate]_vars

(***************************************************************************)
(* NpointCrossover.c                                                       *)
(***************************************************************************)
\* Parent pools handed to Crossover.  Crossover only copies genes, so what matters
\* is that the genes of two parents, and of two columns, can be told apart:
\* rows alternate, columns alternate, both alternate, or all genes are set.
Parentpools(rows, cols) ==
    LET matrix(pattern(_, _)) ==
           [idx \in 0..(rows * cols - 1) |-> pattern(idx % rows, idx \div rows)]
        byRow(row, col)   == row % 2 = 0
        byCol(row, col)   == col % 2 = 0
        checker(row, col) == (row + col) % 2 = 0
        allSet(row, col)  == TRUE
    IN  {matrix(byRow), matrix(byCol), matrix(checker), matrix(allSet)}

\* int cmpfunc(a, b): return *a - *b
cmpfunc(a, b) == a - b

\* qsort(base, N, sizeof(int), cmpfunc): ascending order under cmpfunc.
RECURSIVE qsort(_)
qsort(s) ==
    IF Len(s) <= 1
       THEN s
       ELSE LET pivot == s[1]
                rest  == Tail(s)
                below(x) == cmpfunc(x, pivot) < 0
                above(x) == ~(cmpfunc(x, pivot) < 0)
            IN  qsort(SelectSeq(rest, below)) \o <<pivot>> \o qsort(SelectSeq(rest, above))

\* if (N > n) error; if (N <= 0) error.  n is a size_t, so N > n compares N as
\* an unsigned value: a negative N counts as huge and fails the first test.
InvalidN_upperOnly(points, cols) == points > cols

InvalidN(points, cols) == (points < 0 \/ points > cols) \/ points <= 0

\* for (j = 0; j < i; j++) if (CandidatePoint == CrossOverPoints[j]) AlreadyChosen = true
AlreadyChosen(candidate, points) == \E j \in 1..Len(points) : candidate = points[j]

\* The comparison gene > CrossOverPoints[e].  The array holds N ints; at an index
\* e >= N the read is past its end and the comparison may come out either way.
PointPassedOutcomes(g, seg, points) ==
    IF seg < Len(points) THEN {g > points[seg + 1]} ELSE BOOLEAN

\* A store Children[idx] = v: inside the my*n elements it changes the matrix;
\* outside them it writes other memory and leaves the matrix as it is.
Store(matrix, idx, v) ==
    IF idx \in DOMAIN matrix THEN [matrix EXCEPT ![idx] = v] ELSE matrix

\* Row (GeneratedChild + 1)'s store is guarded by "if (GeneratedChild < my)".
SiblingGuard(child, total) == child < total

InitCrossover ==
    /\ pc = "CrossCreate"
    /\ m \in 2..MaxPoolM
    /\ n \in 1..MaxPoolN
    /\ Parentpool \in Parentpools(m, n)
    /\ N \in (-1)..(n + 1)
    /\ my \in 0..MaxMy
    /\ Children = <<>>
    /\ ChildrenCreated = FALSE
    /\ errorId = ""
    /\ CrossOverPoints = <<>>
    /\ GeneratedChild = 0 /\ P1 = 0 /\ P2 = 0 /\ i = 0 /\ e = 0 /\ gene = 0
    /\ Stored = {} /\ oobRead = FALSE /\ EventParents = <<>>
    /\ Population = <<>>
    /\ IdleMutate /\ IdleSelect /\ IdleRandr

\* plhs[0] = mxCreateLogicalMatrix(my, n); Children = mxGetLogicals(plhs[0])
CrossCreate ==
    /\ pc = "CrossCreate"
    /\ Children' = mxCreateLogicalMatrix(my, n)
    /\ ChildrenCreated' = TRUE
    /\ pc' = "CrossCheck"
    /\ UNCHANGED <<m, n, gene, Population, Parentpool, N, my, errorId, CrossOverPoints,
                   GeneratedChild, P1, P2, i, e, Stored, oobRead, EventParents>>
    /\ UNCHANGED <<mutVars, selVars, randrVars>>

\* The two argument tests; mexErrMsgIdAndTxt does not return.  Otherwise the
\* scratch array is allocated and GeneratedChild = 0.
CrossCheck ==
    /\ pc = "CrossCheck"
    /\ IF InvalidN(N, n)
          THEN /\ errorId' = "MATLAB:NpointCrossover:invalidinputs"
               /\ pc' = "CrossError"
               /\ UNCHANGED <<CrossOverPoints, GeneratedChild>>
          ELSE /\ CrossOverPoints' = <<>>
               /\ GeneratedChild' = 0
               /\ pc' = "CrossLoop"
               /\ UNCHANGED errorId
    /\ UNCHANGED <<m, n, gene, Population, Parentpool, N, my, ChildrenCreated, Children,
                   P1, P2, i, e, Stored, oobRead, EventParents>>
    /\ UNCHANGED <<mutVars, selVars, randrVars>>

\* while (GeneratedChild < my)
CrossLoop ==
    /\ pc = "CrossLoop"
    /\ pc' = IF GeneratedChild < my THEN "CrossP1" ELSE "CrossDone"
    /\ UNCHANGED <<m, n, gene, Population, crossVars>>
    /\ UNCHANGED <<mutVars, selVars, randrVars>>

\* P1 = randr(0, m - 1)
CrossDrawP1(r) ==
    /\ pc = "CrossP1"
    /\ P1' = randr(0, m - 1, r)
    /\ pc' = "CrossP2"
    /\ UNCHANGED <<m, n, gene, Population, Parentpool, N, my, ChildrenCreated, Children, errorId,
                   CrossOverPoints, GeneratedChild, P2, i, e, Stored, oobRead, EventParents>>
    /\ UNCHANGED <<mutVars, selVars, randrVars>>

\* P2 = randr(0, m - 1); while (P1 == P2) P2 = randr(0, m - 1);  then i = 0
CrossDrawP2(r) ==
    /\ pc = "CrossP2"
    /\ P2' = randr(0, m - 1, r)
    /\ IF P1 = P2'
          THEN /\ pc' = "CrossP2"
               /\ UNCHANGED <<i, EventParents>>
          ELSE /\ pc' = "CrossPoints"
               /\ i' = 0
               /\ EventParents' = Append(EventParents, <<P1, P2'>>)
    /\ UNCHANGED <<m, n, gene, Population, Parentpool, N, my, ChildrenCreated, Children, errorId,
                   CrossOverPoints, GeneratedChild, P1, e, Stored, oobRead>>
    /\ UNCHANGED <<mutVars, selVars, randrVars>>

\* One pass of "while (i < N)": draw a candidate, keep it unless already chosen.
\* CrossOverPoints holds the i points written in this event (the entries from
\* i on are not read before they are written).
CrossPickPoint(r) ==
    /\ pc = "CrossPoints"
    /\ i < N
    /\ LET CandidatePoint == randr(0, n - 1, r)
           chosen == SubSeq(CrossOverPoints, 1, i)
       IN  IF AlreadyChosen(CandidatePoint, chosen)
              THEN UNCHANGED <<CrossOverPoints, i>>
              ELSE /\ CrossOverPoints' = Append(chosen, CandidatePoint)
                   /\ i' = i + 1
    /\ UNCHANGED <<pc, m, n, gene, Population, Parentpool, N, my, ChildrenCreated, Children, errorId,
                   GeneratedChild, P1, P2, e, Stored, oobRead, EventParents>>
    /\ UNCHANGED <<mutVars, selVars, randrVars>>

\* i < N fails: qsort(CrossOverPoints, N, ...); e = 0; gene = 0
CrossSort ==
    /\ pc = "CrossPoints"
    /\ ~(i < N)
    /\ CrossOverPoints' = qsort(SubSeq(CrossOverPoints, 1, i))
    /\ e' = 0
    /\ gene' = 0
    /\ pc' = "CrossGenes"
    /\ UNCHANGED <<m, n, Population, Parentpool, N, my, ChildrenCreated, Children, errorId,
                   GeneratedChild, P1, P2, i, Stored, oobRead, EventParents>>
    /\ UNCHANGED <<mutVars, selVars, randrVars>>

\* One pass of "for (gene = 0; gene < n; gene++)": advance the segment counter,
\* store the gene of the child and of its sibling, gene++.
CrossGene(passed) ==
    /\ pc = "CrossGenes"
    /\ gene < n
    /\ passed \in PointPassedOutcomes(gene, e, CrossOverPoints)
    /\ oobRead' = (oobRead \/ ~(e < Len(CrossOverPoints)))
    /\ e' = IF passed THEN e + 1 ELSE e
    /\ LET first  == IF e' % 2 = 0 THEN P1 ELSE P2
           second == IF e' % 2 = 0 THEN P2 ELSE P1
           idx    == GeneratedChild + gene * my
           one    == Store(Children, idx, Parentpool[first + gene * m])
       IN  IF SiblingGuard(GeneratedChild, my)
              THEN /\ Children' = Store(one, idx + 1, Parentpool[second + gene * m])
                   /\ Stored' = Stored \cup {<<GeneratedChild, idx>>,
                                             <<GeneratedChild + 1, idx + 1>>}
              ELSE /\ Children' = one
                   /\ Stored' = Stored \cup {<<GeneratedChild, idx>>}
    /\ gene' = gene + 1
    /\ UNCHANGED <<pc, m, n, Population, Parentpool, N, my, ChildrenCreated, errorId, CrossOverPoints,
                   GeneratedChild, P1, P2, i, EventParents>>
    /\ UNCHANGED <<mutVars, selVars, randrVars>>

\* gene < n fails: GeneratedChild++
CrossNextChild ==
    /\ pc = "CrossGenes"
    /\ ~(gene < n)
    /\ GeneratedChild' = GeneratedChild + 1
    /\ pc' = "CrossLoop"
    /\ UNCHANGED <<m, n, gene, Population, Parentpool, N, my, ChildrenCreated, Children, errorId,
                   CrossOverPoints, P1, P2, i, e, Stored, oobRead, EventParents>>
    /\ UNCHANGED <<mutVars, selVars, randrVars>>

NextCrossover ==
    \/ CrossCreate
    \/ CrossCheck
    \/ CrossLoop
    \/ \E r \in 0..RAND_MAX : CrossDrawP1(r)
    \/ \E r \in 0..RAND_MAX : CrossDrawP2(r)
    \/ \E r \in 0..RAND_MAX : CrossPickPoint(r)
    \/ CrossSort
    \/ \E passed \in BOOLEAN : CrossGene(passed)
    \/ CrossNextChild

SpecCrossover == InitCrossover /\ [][NextCrossover]_vars

(***************************************************************************)
(* TournamentSelection.c                                                   *)
(***************************************************************************)
\* Fitness values handed to Select: enough of them for ties and for all-distinct vectors.
FitnessValues == {1, 2, 3}

\* Populations handed to Select.  Select only copies rows, so what matters is
\* that rows can be told apart: row r holds the binary digits of r + 1 (rows
\* differ pairwise once 2^n > m), or their complements.
SelPopulations(rows, cols) ==
    LET digit(idx) == (((idx % rows) + 1) \div (2 ^ (idx \div rows))) % 2 = 1
    IN  { [idx \in 0..(rows * cols - 1) |-> digit(idx)],
          [idx \in 0..(rows * cols - 1) |-> ~digit(idx)] }

\* mxCreateDoubleMatrix(rows, 1, mxREAL): zero-filled.
mxCreateDoubleMatrix(rows) == [idx \in 0..(rows - 1) |-> 0]

\* for (row = 0; row < Contender; row++) if (ContenderIndex == ContenderList[row]) AlreadyInTour = true
AlreadyInTour(index, list) == \E row \in 1..Len(list) : index = list[row]

\* if (ContenderFitnessList[row] > Winner)
Beats_orEqual(fitness, best) == fitness >= best

Beats(fitness, best) == fitness > best

\* The winner loop, from row on: win is <<Winner, WinnerIndex>> so far.
RECURSIVE FindWinner(_, _, _, _)
FindWinner(row, list, flist, win) ==
    IF ~(row < Len(list))
       THEN win
       ELSE IF row = 0
               THEN FindWinner(1, list, flist, <<flist[1], list[1]>>)
               ELSE IF Beats(flist[row + 1], win[1])
                       THEN FindWinner(row + 1, list, flist, <<flist[row + 1], list[row + 1]>>)
                       ELSE FindWinner(row + 1, list, flist, win)

\* for (col = 0; col < n; col++) Survivors[Tournament + NoSurvivors*col] = Population[WinnerIndex + m*col]
RECURSIVE CopyWinner(_, _, _, _)
CopyWinner(col, matrix, slot, winner) ==
    IF col < n
       THEN CopyWinner(col + 1,
                       [matrix EXCEPT ![slot + NoSurvivors * col] = Population[winner + m * col]],
                       slot, winner)
       ELSE matrix

InitSelect ==
    /\ pc = "SelCreate"
    /\ m \in 1..MaxSelM
    /\ n \in 1..MaxSelN
    /\ Population \in SelPopulations(m, n)
    /\ Fitness \in [0..(m - 1) -> FitnessValues]
    /\ Eliterows \in 0..(m - 1)
    /\ k \in 1..(m - Eliterows)
    /\ NoSurvivors \in 0..MaxSurvivors
    /\ Survivors = <<>> /\ SurvivorFitness = <<>>
    /\ Tournament = 0 /\ Contender = 0
    /\ ContenderList = <<>> /\ ContenderFitnessList = <<>>
    /\ ContenderIndex = 0
    /\ TournamentLog = <<>>
    /\ gene = 0
    /\ IdleMutate /\ IdleCrossover /\ IdleRandr

\* The two outputs are created, TourSel is entered, its scratch arrays allocated; Tournament = 0
SelCreate ==
    /\ pc = "SelCreate"
    /\ Survivors' = mxCreateLogicalMatrix(NoSurvivors, n)
    /\ SurvivorFitness' = mxCreateDoubleMatrix(NoSurvivors)
    /\ Tournament' = 0
    /\ pc' = "SelLoop"
    /\ UNCHANGED <<m, n, gene, Population, k, Fitness, NoSurvivors, Eliterows, Contender,
                   ContenderList, ContenderFitnessList, ContenderIndex, TournamentLog>>
    /\ UNCHANGED <<mutVars, crossVars, randrVars>>

\* for (Tournament = 0; Tournament < NoSurvivors; Tournament++): the test, then Contender = 0.
\* The lists hold the Contender entries written in this tournament (rows from
\* Contender on are not read before they are written).
SelLoop ==
    /\ pc = "SelLoop"
    /\ IF Tournament < NoSurvivors
          THEN /\ Contender' = 0
               /\ ContenderList' = <<>>
               /\ ContenderFitnessList' = <<>>
               /\ pc' = "SelDraw"
          ELSE /\ pc' = "SelDone"
               /\ UNCHANGED <<Contender, ContenderList, ContenderFitnessList>>
    /\ UNCHANGED <<m, n, gene, Population, k, Fitness, NoSurvivors, Eliterows, Survivors,
                   SurvivorFitness, Tournament, ContenderIndex, TournamentLog>>
    /\ UNCHANGED <<mutVars, crossVars, randrVars>>

\* One pass of "while (Contender < k)" with rand() = r.
SelDrawContender(r) ==
    /\ pc = "SelDraw"
    /\ Contender < k
    /\ ContenderIndex' = randr(Eliterows, m - 1, r)
    /\ IF AlreadyInTour(ContenderIndex', ContenderList)
          THEN UNCHANGED <<Contender, ContenderList, ContenderFitnessList>>
          ELSE /\ ContenderList' = Append(ContenderList, ContenderIndex')
               /\ ContenderFitnessList' = Append(ContenderFitnessList, Fitness[ContenderIndex'])
               /\ Contender' = Contender + 1
    /\ UNCHANGED <<pc, m, n, gene, Population, k, Fitness, NoSurvivors, Eliterows, Survivors,
                   SurvivorFitness, Tournament, TournamentLog>>
    /\ UNCHANGED <<mutVars, crossVars, randrVars>>

\* Contender < k fails: find the winner, copy it and its fitness into slot Tournament, Tournament++
SelWinner ==
    /\ pc = "SelDraw"
    /\ ~(Contender < k)
    /\ LET win == FindWinner(0, ContenderList, ContenderFitnessList, <<0, 0>>)
           Winner == win[1]
           WinnerIndex == win[2]
       IN  /\ SurvivorFitness' = [SurvivorFitness EXCEPT ![Tournament] = Winner]
           /\ Survivors' = CopyWinner(0, Survivors, Tournament, WinnerIndex)
    /\ TournamentLog' = Append(TournamentLog, ContenderList)
    /\ Tournament' = Tournament + 1
    /\ pc' = "SelLoop"
    /\ UNCHANGED <<m, n, gene, Population, k, Fitness, NoSurvivors, Eliterows, Contender,
                   ContenderList, ContenderFitnessList, ContenderIndex>>
    /\ UNCHANGED <<mutVars, crossVars, randrVars>>

NextSelect ==
    \/ SelCreate
    \/ SelLoop
    \/ \E r \in 0..RAND_MAX : SelDrawContender(r)
    \/ SelWinner

SpecSelect == InitSelect /\ [][NextSelect]_vars

\* "Fair random draws": every rand() outcome that would change the state keeps
\* being drawn while the contender loop runs, and the program keeps running.
FairSpecSelect ==
    /\ InitSelect
    /\ [][NextSelect]_vars
    /\ WF_vars(SelCreate)
    /\ WF_vars(SelLoop)
    /\ WF_vars(SelWinner)
    /\ \A r \in 0..RAND_MAX : SF_vars(SelDrawContender(r))

(***************************************************************************)
(* randr on its own: all rand() outcomes for one (min, max).               *)
(***************************************************************************)
InitRandr ==
    /\ pc = "Randr"
    /\ rmin \in 0..MaxMin
    /\ rmax \in rmin..(rmin + RAND_MAX)
    /\ rdrawn = {}
    /\ rimage = {}
    /\ m = 0 /\ n = 0 /\ gene = 0 /\ Population = <<>>
    /\ IdleMutate /\ IdleCrossover /\ IdleSelect

\* One call randr(rmin, rmax) with a rand() outcome not seen yet.
RandrCall(r) ==
    /\ pc = "Randr"
    /\ r \notin rdrawn
    /\ rdrawn' = rdrawn \cup {r}
    /\ rimage' = rimage \cup {randr(rmin, rmax, r)}
    /\ UNCHANGED <<rmin, rmax, sharedVars, mutVars, crossVars, selVars>>

NextRandr == \E r \in 0..RAND_MAX : RandrCall(r)

SpecRandr == InitRandr /\ [][NextRandr]_vars

(***************************************************************************)
(* Properties of BitflipMutation.c, checked under SpecMutate.               *)
(***************************************************************************)
MutCopied == pc \in {"MutGeneLoop", "MutIndivLoop", "MutDone"}

\* C8: once the output holds its copy of the input, at every point of the run:
\* the output has the input's m x n shape; every row below ElitismNo equals the
\* input row bit for bit; a bit of any other row differs from the input bit
\* only if that (individual, gene) pair's own draw gave RandNr < Pm; so with
\* Pm = 0, or with ElitismNo >= m, the output equals the input.
MutateElitismExemption ==
    MutCopied =>
       /\ DOMAIN MutatedPopulation = 0..(m * n - 1)
       /\ DOMAIN MutatedPopulation = DOMAIN Population
       /\ \A row \in 0..(m - 1), col \in 0..(n - 1) :
             LET idx == row + col * m
             IN  /\ row < ElitismNo => MutatedPopulation[idx] = Population[idx]
                 /\ MutatedPopulation[idx] # Population[idx] => <<row, col>> \in Triggered
       /\ \A pair \in Triggered : pair[1] >= ElitismNo
       /\ Pm[1] = 0 => MutatedPopulation = Population
       /\ ElitismNo >= m => MutatedPopulation = Population

\* C8 witness: a finished run on a 2 x 2 population with one elite row, whose
\* other row had both of its bits flipped.
MutateElitismWitness ==
    /\ pc = "MutDone"
    /\ m = 2 /\ n = 2 /\ ElitismNo = 1
    /\ Triggered = {<<1, 0>>, <<1, 1>>}
    /\ \A col \in 0..1 : MutatedPopulation[1 + col * m] # Population[1 + col * m]
    /\ \A col \in 0..1 : MutatedPopulation[col * m] = Population[col * m]

\* C4 (as claimed): with Pm = 1 the finished output has every bit of every row
\* from ElitismNo on negated, whatever rand() returned.
MutatePmOneFlipsEveryEligibleBit ==
    (pc = "MutDone" /\ Pm = <<1, 1>>) =>
       \A row \in ElitismNo..(m - 1), col \in 0..(n - 1) :
          MutatedPopulation[row + col * m] = ~Population[row + col * m]

(***************************************************************************)
(* Properties of NpointCrossover.c, checked under SpecCrossover.            *)
(***************************************************************************)
\* C1 (as claimed): every store into Children targets a row index < my and a
\* linear index inside the my * n elements of the matrix.
CrossoverStoresStayInsideChildren ==
    \A store \in Stored :
       /\ 0 <= store[1] /\ store[1] < my
       /\ 0 <= store[2] /\ store[2] < my * n

\* C2 (as claimed): when Crossover returns, every gene (c, g) of Children
\* equals gene g of one of the two parents of the event that generated row c
\* (the event run with GeneratedChild = c).
CrossoverGeneProvenance ==
    pc = "CrossDone" =>
       \A c \in 0..(my - 1), g \in 0..(n - 1) :
          Children[c + g * my] \in { Parentpool[EventParents[c + 1][1] + g * m],
                                     Parentpool[EventParents[c + 1][2] + g * m] }

\* C3 (as claimed): at the moment the argument error is reported, the output
\* matrix has not been allocated and no crossover work has been done.
CrossoverErrorBeforeAllocation ==
    pc = "CrossError" =>
       /\ ~ChildrenCreated
       /\ EventParents = <<>> /\ CrossOverPoints = <<>> /\ Stored = {}

\* C3 (amended): N <= 0 or N > n always ends in the invalidinputs error and
\* never enters the crossover loop; only such an N is rejected; when the
\* error is reported no parent has been drawn, no cut point drawn and no child
\* gene stored, while the my x n output matrix already exists, zero-filled
\* (it is created before the tests).
CrossoverInvalidNRejectedBeforeWork ==
    /\ (N <= 0 \/ N > n) => pc \in {"CrossCreate", "CrossCheck", "CrossError"}
    /\ pc = "CrossError" =>
          /\ N <= 0 \/ N > n
          /\ errorId = "MATLAB:NpointCrossover:invalidinputs"
          /\ EventParents = <<>> /\ CrossOverPoints = <<>> /\ Stored = {} /\ ~oobRead
          /\ ChildrenCreated
          /\ Children = mxCreateLogicalMatrix(my, n)
    /\ pc # "CrossError" => errorId = ""

\* C3 witness: the error reported for N <= 0 with a non-empty output created.
CrossoverInvalidNWitness ==
    /\ pc = "CrossError"
    /\ N <= 0
    /\ my = 2 /\ n = 3
    /\ DOMAIN Children = 0..5

\* C10 (as claimed): whenever CrossOverPoints[e] is about to be read (a pass
\* of the gene loop starts), 0 <= e < N; no read past the array has happened.
CrossoverSegmentIndexInsidePoints ==
    /\ (pc = "CrossGenes" /\ gene < n) => (0 <= e /\ e < N)
    /\ ~oobRead

(***************************************************************************)
(* Properties of TournamentSelection.c, checked under SpecSelect (C5 under  *)
(* FairSpecSelect).                                                         *)
(***************************************************************************)
\* The greatest fitness among the contenders of one tournament.
BestFitness(list) ==
    CHOOSE f \in {Fitness[list[j]] : j \in 1..Len(list)} :
       \A j \in 1..Len(list) : Fitness[list[j]] <= f

\* The first-drawn contender whose fitness is the greatest of its tournament.
FirstBestContender(list) ==
    LET first == CHOOSE j \in 1..Len(list) :
                    /\ Fitness[list[j]] = BestFitness(list)
                    /\ \A earlier \in 1..(j - 1) : Fitness[list[earlier]] # BestFitness(list)
    IN  list[first]

\* C5 (as claimed): under fair random draws a call whose arguments satisfy
\* 1 <= k <= m - Eliterows returns.
SelectTerminates == <>(pc = "SelDone")

\* C6: for every finished tournament t, k contenders were drawn, slot t of
\* SurvivorFitness holds the fitness of the first-drawn contender of greatest
\* fitness, and slot t of Survivors holds that same contender's whole row; the
\* slots of tournaments not yet held are still zero; a finished call has held
\* exactly NoSurvivors tournaments.
SelectWinnerIsFirstBestContender ==
    pc \in {"SelLoop", "SelDraw", "SelDone"} =>
       /\ Len(TournamentLog) = Tournament
       /\ Tournament <= NoSurvivors
       /\ pc = "SelDone" => Tournament = NoSurvivors
       /\ \A t \in 0..(NoSurvivors - 1) :
             IF t < Tournament
                THEN LET w == FirstBestContender(TournamentLog[t + 1])
                     IN  /\ Len(TournamentLog[t + 1]) = k
                         /\ SurvivorFitness[t] = Fitness[w]
                         /\ \A col \in 0..(n - 1) :
                               Survivors[t + NoSurvivors * col] = Population[w + m * col]
                ELSE /\ SurvivorFitness[t] = 0
                     /\ \A col \in 0..(n - 1) : Survivors[t + NoSurvivors * col] = FALSE

\* C6 witness: a finished call of two tournaments on rows that differ pairwise,
\* one of them with two contenders sharing the greatest fitness, the winner
\* being the one drawn first although it is the lower of the two rows.
SelectWinnerWitness ==
    /\ pc = "SelDone"
    /\ NoSurvivors = 2 /\ n = 2 /\ k = 2
    /\ \E t \in 1..2 :
          LET list == TournamentLog[t]
          IN  /\ Fitness[list[1]] = Fitness[list[2]]
              /\ list[1] > list[2]
              /\ SurvivorFitness[t - 1] = Fitness[list[1]]
              /\ \E col \in 0..1 : Population[list[1] + m * col] # Population[list[2] + m * col]

\* C7: every index accepted into the contender list of a tournament, running
\* or finished, lies in Eliterows..m-1, and the indices of one tournament
\* differ pairwise; at most k are accepted.
SelectContendersEligibleAndDistinct ==
    LET Eligible(list) ==
           /\ Len(list) <= k
           /\ \A j \in 1..Len(list) : Eliterows <= list[j] /\ list[j] < m
           /\ \A j1, j2 \in 1..Len(list) : j1 # j2 => list[j1] # list[j2]
    IN  /\ Eligible(ContenderList)
        /\ Len(ContenderList) = Contender
        /\ \A t \in 1..Len(TournamentLog) : Eligible(TournamentLog[t])
        /\ ContenderFitnessList = [j \in 1..Len(ContenderList) |-> Fitness[ContenderList[j]]]

\* C7 witness: a full tournament at the boundary k = m - Eliterows, with elites.
SelectContendersWitness ==
    /\ pc = "SelDraw"
    /\ Eliterows = 1 /\ m = 3 /\ k = 2
    /\ Contender = k
    /\ {ContenderList[j] : j \in 1..Len(ContenderList)} = {1, 2}

(***************************************************************************)
(* Property of randr, checked under SpecRandr.                              *)
(***************************************************************************)
\* C9 (as claimed): randr(min, max) never leaves min..max, and once every
\* rand() outcome 0..RAND_MAX has occurred it has returned every value of min..max.
RandrCoversItsRange ==
    /\ rimage \subseteq rmin..rmax
    /\ rdrawn = 0..RAND_MAX => rimage = rmin..rmax

====
